---- MODULE Spec2Model ----
(***************************************************************************)
(* zod-to-json-schema: the directory scanner (scanner.ts), the schema      *)
(* classifier (types.ts) and the CLI driver with its converter adapter and *)
(* output writers (index.ts), as state machines.                           *)
(*                                                                         *)
(* Strings are sequences of one-character strings, so that endsWith,       *)
(* startsWith, slice, toUpperCase and path.basename are computed on the    *)
(* characters as the code computes them.                                   *)
(***************************************************************************)
EXTENDS Integers, Sequences, FiniteSets, TLC

VARIABLES
    \* a caller of normalizeSchemaName: position, argument, results
    npc, nName, nResult, nAgain,
    \* a caller of flattenSchemas: position, argument, result
    fpc, fScanResults, fSchemas,
    \* scanDirectory: position, matched files with what importing each one
    \* gives, options.verbose, loop index, results
    spc, sFiles, sVerbose, sIdx, sResults,
    \* the output writers: position, options (combined, target, format),
    \* schemas to write, loop index, counters, $defs, the files written to
    \* the output directory, the calls made to convertToJsonSchema
    wpc, wCombined, wTarget, wFormat, wSchemas, wIdx, wErrorCount,
    wSuccessCount, wDefs, wDisk, wCalls,
    \* the CLI action and run(): position, what fs.stat gives for the input
    \* path, the file-system failures met, the exit code of the process
    rpc, rStat, rFaults, rExit

nvars == <<npc, nName, nResult, nAgain>>
fvars == <<fpc, fScanResults, fSchemas>>

svars == <<spc, sFiles, sVerbose, sIdx, sResults>>

wopts == <<wCombined, wTarget, wFormat>>
wvars == <<wpc, wopts, wSchemas, wIdx, wErrorCount, wSuccessCount, wDefs, wDisk, wCalls>>

rvars == <<rpc, rStat, rFaults, rExit>>

vars == <<nvars, fvars, svars, wvars, rvars>>

(***************************************************************************)
(* Bounds of the model.                                                    *)
(***************************************************************************)
\* longest stem (the part of an export identifier that is no suffix)
MaxStem == 2
\* most recognised suffixes appended to a stem
MaxSuffix == 2
\* most files in one scan result
MaxFiles == 2
\* most exports of one file
MaxExports == 2
\* most files matched in one scan
MaxScanFiles == 3
\* most schemas handed to an output writer
MaxSchemas == 2
\* most files matched in one run of the CLI
MaxRunFiles == 2

(***************************************************************************)
(* Characters and strings.                                                 *)
(***************************************************************************)
LowerSeq == <<"a", "b", "c", "d", "e", "h", "i", "l", "m", "o", "r", "s", "t", "u", "x", "z">>
UpperSeq == <<"A", "B", "C", "D", "E", "H", "I", "L", "M", "O", "R", "S", "T", "U", "X", "Z">>

LowerLetters == {LowerSeq[i] : i \in DOMAIN LowerSeq}
UpperLetters == {UpperSeq[i] : i \in DOMAIN UpperSeq}

\* String.prototype.toUpperCase on one character: a lowercase letter maps to
\* its capital, every other character (capital, digit, "_", "$", ".") to itself.
ToUpperCase(c) ==
    IF c \in LowerLetters
    THEN UpperSeq[CHOOSE i \in DOMAIN LowerSeq : LowerSeq[i] = c]
    ELSE c

SeqsUpTo(S, n) == UNION {[1..k -> S] : k \in 0..n}

RECURSIVE Flat(_)
Flat(ss) == IF ss = <<>> THEN <<>> ELSE Head(ss) \o Flat(Tail(ss))

\* String.prototype.endsWith / startsWith
EndsWith(s, suf) ==
    /\ Len(suf) <= Len(s)
    /\ SubSeq(s, Len(s) - Len(suf) + 1, Len(s)) = suf

StartsWith(s, pre) ==
    /\ Len(pre) <= Len(s)
    /\ SubSeq(s, 1, Len(pre)) = pre

\* String.prototype.slice(start, end) with JavaScript's index rules: a
\* negative index counts from the end, indices are clamped to [0, length].
SliceIndex(s, i) ==
    IF i < 0
    THEN (IF Len(s) + i < 0 THEN 0 ELSE Len(s) + i)
    ELSE (IF i > Len(s) THEN Len(s) ELSE i)

Slice(s, start, end) == SubSeq(s, SliceIndex(s, start) + 1, SliceIndex(s, end))

SliceFrom(s, start) == SubSeq(s, SliceIndex(s, start) + 1, Len(s))

SchemaSuffix == <<"S", "c", "h", "e", "m", "a">>
ZodSuffix == <<"Z", "o", "d">>
ValidatorSuffix == <<"V", "a", "l", "i", "d", "a", "t", "o", "r">>
zPrefix == <<"z">>

(***************************************************************************)
(* scanner.ts: normalizeSchemaName                                         *)
(***************************************************************************)
\* mutant: the suffix step also strips a trailing Validator
StripSuffix_AlsoValidator(name) ==
    IF EndsWith(name, SchemaSuffix) THEN Slice(name, 0, -6)
    ELSE IF EndsWith(name, ZodSuffix) THEN Slice(name, 0, -3)
    ELSE IF EndsWith(name, ValidatorSuffix) THEN Slice(name, 0, -9)
    ELSE name

\* the suffix step: "Schema" is tried first, "Zod" only when it is absent
StripSuffix(name) ==
    IF EndsWith(name, SchemaSuffix) THEN Slice(name, 0, -6)
    ELSE IF EndsWith(name, ZodSuffix) THEN Slice(name, 0, -3)
    ELSE name

\* the test guarding the removal of the z prefix
HasZPrefix(normalized) ==
    /\ StartsWith(normalized, zPrefix)
    /\ Len(normalized) > 1
    /\ normalized[2] = ToUpperCase(normalized[2])

StripZPrefix(normalized) ==
    IF HasZPrefix(normalized) THEN SliceFrom(normalized, 1) ELSE normalized

normalizeSchemaName(name) == StripZPrefix(StripSuffix(name))

(***************************************************************************)
(* Export identifiers the normalizer is applied to: a stem over a few      *)
(* characters (z, a lowercase letter, a capital, a non-letter) followed by *)
(* a chain of recognised suffixes.                                         *)
(***************************************************************************)
StemChars == {"z", "u", "U", "_"}
Suffixes == {SchemaSuffix, ZodSuffix, ValidatorSuffix}

Names ==
    {stem \o Flat(chain) : stem \in SeqsUpTo(StemChars, MaxStem),
                           chain \in SeqsUpTo(Suffixes, MaxSuffix)}

NormIdle ==
    /\ npc = "idle"
    /\ nName = <<>>
    /\ nResult = <<>>
    /\ nAgain = <<>>

FlatIdle ==
    /\ fpc = "idle"
    /\ fScanResults = <<>>
    /\ fSchemas = <<>>

ScanIdle ==
    /\ spc = "idle"
    /\ sFiles = <<>>
    /\ sVerbose = FALSE
    /\ sIdx = 0
    /\ sResults = <<>>

EmptyObject == [k \in {} |-> <<>>]

WriteIdle ==
    /\ wpc = "idle"
    /\ wCombined = FALSE
    /\ wTarget = "draft-2020-12"
    /\ wFormat = TRUE
    /\ wSchemas = <<>>
    /\ wIdx = 0
    /\ wErrorCount = 0
    /\ wSuccessCount = 0
    /\ wDefs = EmptyObject
    /\ wDisk = EmptyObject
    /\ wCalls = <<>>

RunIdle ==
    /\ rpc = "idle"
    /\ rStat = "directory"
    /\ rFaults = {}
    /\ rExit = -1

NormInit ==
    /\ npc = "start"
    /\ nName \in Names
    /\ nResult = <<>>
    /\ nAgain = <<>>
    /\ FlatIdle
    /\ ScanIdle
    /\ WriteIdle
    /\ RunIdle

\* normalizeSchemaName(exportName)
Normalize ==
    /\ npc = "start"
    /\ nResult' = normalizeSchemaName(nName)
    /\ npc' = "once"
    /\ UNCHANGED <<nName, nAgain, fvars, svars, wvars, rvars>>

\* a second pass over the first pass's result
NormalizeAgain ==
    /\ npc = "once"
    /\ nAgain' = normalizeSchemaName(nResult)
    /\ npc' = "twice"
    /\ UNCHANGED <<nName, nResult, fvars, svars, wvars, rvars>>

NormNext == Normalize \/ NormalizeAgain

SpecNorm == NormInit /\ [][NormNext]_vars

(***************************************************************************)
(* scanner.ts: flattenSchemas                                              *)
(***************************************************************************)
Slash == "/"
Dot == "."
tsExt == <<".", "t", "s">>
Underscore == <<"_">>

\* the part of a path after its last separator (scanned paths come from
\* path.join over files matched with nodir, so none ends with a separator)
RECURSIVE LastSegment(_)
LastSegment(p) ==
    IF p = <<>> THEN <<>>
    ELSE IF p[Len(p)] = Slash THEN <<>>
    ELSE Append(LastSegment(SubSeq(p, 1, Len(p) - 1)), p[Len(p)])

\* path.basename(p, suffix): the last segment, with the suffix removed when
\* the segment ends with it and is longer than it; the empty string when the
\* whole path is the suffix
basename(p, suffix) ==
    IF suffix # <<>> /\ suffix = p THEN <<>>
    ELSE LET seg == LastSegment(p)
         IN IF suffix # <<>> /\ EndsWith(seg, suffix) /\ seg # suffix
            THEN SubSeq(seg, 1, Len(seg) - Len(suffix))
            ELSE seg

\* the name an export is emitted under when its own name is already seen
RenamedName(filePath, name) == basename(filePath, tsExt) \o Underscore \o name

\* mutant: a kept export is put in front of the list instead of behind it
FlattenExport_Unshift(acc, filePath, schema) ==
    LET name == IF schema.name \in acc.seenNames
                THEN RenamedName(filePath, schema.name)
                ELSE schema.name
    IN IF name \notin acc.seenNames
       THEN [seenNames |-> acc.seenNames \cup {name},
             schemas |-> <<[name |-> name, schema |-> schema.schema]>> \o acc.schemas]
       ELSE acc

\* mutant: the renamed export is pushed without the second seenNames test
FlattenExport_NoSecondCheck(acc, filePath, schema) ==
    LET name == IF schema.name \in acc.seenNames
                THEN RenamedName(filePath, schema.name)
                ELSE schema.name
    IN [seenNames |-> acc.seenNames \cup {name},
        schemas |-> Append(acc.schemas, [name |-> name, schema |-> schema.schema])]

\* the body of the inner loop, on acc = [seenNames, schemas]
FlattenExport(acc, filePath, schema) ==
    LET name == IF schema.name \in acc.seenNames
                THEN RenamedName(filePath, schema.name)
                ELSE schema.name
    IN IF name \notin acc.seenNames
       THEN [seenNames |-> acc.seenNames \cup {name},
             schemas |-> Append(acc.schemas, [name |-> name, schema |-> schema.schema])]
       ELSE acc

\* for (const schema of file.schemas)
RECURSIVE FlattenFile(_, _, _)
FlattenFile(acc, filePath, exports) ==
    IF exports = <<>> THEN acc
    ELSE FlattenFile(FlattenExport(acc, filePath, Head(exports)), filePath, Tail(exports))

\* for (const file of scanResults)
RECURSIVE FlattenFiles(_, _)
FlattenFiles(acc, files) ==
    IF files = <<>> THEN acc
    ELSE FlattenFiles(FlattenFile(acc, Head(files).filePath, Head(files).schemas), Tail(files))

flattenSchemas(scanResults) ==
    FlattenFiles([seenNames |-> {}, schemas |-> <<>>], scanResults).schemas

(***************************************************************************)
(* Inputs of flattenSchemas: up to MaxFiles files, each with up to         *)
(* MaxExports exports.  The schema handle of an export is its position     *)
(* <<file, export>>, so every export has a handle of its own.              *)
(***************************************************************************)
FlatPaths ==
    { <<"/", "a", ".", "t", "s">>,
      <<"/", "d", "/", "a", ".", "t", "s">>,
      <<"/", "d", "/", "b", ".", "t", "s">>,
      <<"/", "b", ".", "t", "s", "x">> }

FlatNames == { <<"U">>, <<"b", "_", "U">> }

SchemaFileAt(f, filePath, names) ==
    [filePath |-> filePath,
     schemas |-> [e \in DOMAIN names |-> [name |-> names[e], schema |-> <<f, e>>]]]

FlatInit ==
    /\ fpc = "start"
    /\ \E n \in 0..MaxFiles :
        \E paths \in [1..n -> FlatPaths], names \in [1..n -> SeqsUpTo(FlatNames, MaxExports)] :
            fScanResults = [f \in 1..n |-> SchemaFileAt(f, paths[f], names[f])]
    /\ fSchemas = <<>>
    /\ NormIdle
    /\ ScanIdle
    /\ WriteIdle
    /\ RunIdle

\* flattenSchemas(scanResults)
Flatten ==
    /\ fpc = "start"
    /\ fSchemas' = flattenSchemas(fScanResults)
    /\ fpc' = "done"
    /\ UNCHANGED <<fScanResults, nvars, svars, wvars, rvars>>

FlatNext == Flatten

SpecFlatten == FlatInit /\ [][FlatNext]_vars

(***************************************************************************)
(* types.ts: isZodSchema.  A runtime value is described by what the guard  *)
(* reads of it: its typeof ("null" for null), its _zod property and its    *)
(* _def property, each absent, null, a string, or an object (for _zod: an  *)
(* object with or without a def key).                                      *)
(***************************************************************************)
IsFalsy(v) == v.type \in {"null", "undefined"}

isZodSchema(value) ==
    IF IsFalsy(value) \/ value.type # "object" THEN FALSE
    ELSE IF value.zod = "object-with-def" THEN TRUE
    ELSE IF value.def = "object" THEN TRUE
    ELSE FALSE

Zod4Schema == [type |-> "object", zod |-> "object-with-def", def |-> "absent"]
Zod3Schema == [type |-> "object", zod |-> "absent", def |-> "object"]
PlainObject == [type |-> "object", zod |-> "object-without-def", def |-> "null"]
FunctionValue == [type |-> "function", zod |-> "absent", def |-> "object"]

(***************************************************************************)
(* scanner.ts: isLikelySchemaName, extractSchemasFromFile, scanDirectory   *)
(***************************************************************************)
\* /^z[A-Z]/
MatchesZCapital(name) ==
    /\ Len(name) >= 2
    /\ name[1] = "z"
    /\ name[2] \in UpperLetters

\* mutant: the Validator pattern is missing
isLikelySchemaName_NoValidator(name) ==
    \/ EndsWith(name, SchemaSuffix)
    \/ EndsWith(name, ZodSuffix)
    \/ MatchesZCapital(name)

isLikelySchemaName(name) ==
    \/ EndsWith(name, SchemaSuffix)
    \/ EndsWith(name, ZodSuffix)
    \/ MatchesZCapital(name)
    \/ EndsWith(name, ValidatorSuffix)

defaultName == <<"d", "e", "f", "a", "u", "l", "t">>

\* the body of the loop over Object.entries(module)
ExtractExport(schemas, exportName, exportValue, verbose) ==
    IF exportName = defaultName THEN schemas
    ELSE IF isZodSchema(exportValue)
    THEN IF \/ EndsWith(exportName, SchemaSuffix)
            \/ EndsWith(exportName, ZodSuffix)
            \/ isLikelySchemaName(exportName)
         THEN Append(schemas, [name |-> normalizeSchemaName(exportName), schema |-> exportValue])
         ELSE IF verbose
         THEN Append(schemas, [name |-> exportName, schema |-> exportValue])
         ELSE schemas
    ELSE schemas

RECURSIVE ExtractEntries(_, _, _)
ExtractEntries(schemas, entries, verbose) ==
    IF entries = <<>> THEN schemas
    ELSE ExtractEntries(
            ExtractExport(schemas, Head(entries).exportName, Head(entries).exportValue, verbose),
            Tail(entries), verbose)

\* what `await import(fileUrl)` gives: the module's export table, or a failure
Imported(module) == [ok |-> TRUE, module |-> module]
ImportError == [ok |-> FALSE, module |-> <<>>]

\* extractSchemasFromFile on an imported module (the import has succeeded)
extractSchemasFromFile(module, verbose) == ExtractEntries(<<>>, module, verbose)

AbsoluteDir == <<"/", "r">>

\* path.join(absoluteDir, file) for a relative file path as glob returns it
PathJoin(dir, file) == dir \o <<Slash>> \o file

\* mutant: no try/catch around the file, the import failure leaves the loop
ScanOneFile_NoCatch(results, file, verbose) ==
    LET filePath == PathJoin(AbsoluteDir, file.file)
    IN IF file.load = ImportError
       THEN [threw |-> TRUE, results |-> results]
       ELSE LET schemas == extractSchemasFromFile(file.load.module, verbose)
            IN [threw |-> FALSE,
                results |-> IF Len(schemas) > 0
                            THEN Append(results, [filePath |-> filePath, schemas |-> schemas])
                            ELSE results]

\* the body of the loop over the matched files: [threw, results] after it
ScanOneFile(results, file, verbose) ==
    LET filePath == PathJoin(AbsoluteDir, file.file)
    IN IF file.load = ImportError
       THEN [threw |-> FALSE, results |-> results]
       ELSE LET schemas == extractSchemasFromFile(file.load.module, verbose)
            IN [threw |-> FALSE,
                results |-> IF Len(schemas) > 0
                            THEN Append(results, [filePath |-> filePath, schemas |-> schemas])
                            ELSE results]

\* the i-th file glob returns: a.ts, b.ts, c.ts, ...
FileName(i) == <<LowerSeq[i]>> \o tsExt

ExportNames ==
    { defaultName,
      <<"U">> \o SchemaSuffix,
      <<"U">> \o ZodSuffix,
      <<"U">> \o ValidatorSuffix,
      <<"z", "U">>,
      <<"z", "u">>,
      <<"z", "_">>,
      <<"U">> }

ExportValues == {Zod4Schema, Zod3Schema, PlainObject, FunctionValue}

\* export tables: export names are distinct within a module
Modules ==
    { m \in SeqsUpTo([exportName : ExportNames, exportValue : ExportValues], MaxExports) :
        \A i, j \in DOMAIN m : i # j => m[i].exportName # m[j].exportName }

\* a few import outcomes for scans of several files
SomeLoads ==
    { ImportError,
      Imported(<<>>),
      Imported(<< [exportName |-> <<"U">> \o SchemaSuffix, exportValue |-> Zod4Schema] >>),
      Imported(<< [exportName |-> <<"U">>, exportValue |-> Zod3Schema] >>),
      Imported(<< [exportName |-> <<"z", "U">>, exportValue |-> Zod4Schema],
                  [exportName |-> <<"U">> \o ValidatorSuffix, exportValue |-> PlainObject] >>) }

ScanStart ==
    /\ spc = "loop"
    /\ sVerbose \in BOOLEAN
    /\ sIdx = 1
    /\ sResults = <<>>
    /\ NormIdle
    /\ FlatIdle
    /\ WriteIdle
    /\ RunIdle

\* scans of up to MaxScanFiles files
ScanInit ==
    /\ ScanStart
    /\ sFiles \in UNION { { [i \in 1..n |-> [file |-> FileName(i), load |-> loads[i]]] :
                              loads \in [1..n -> SomeLoads] } : n \in 0..MaxScanFiles }

\* scans of one file that imports, with any export table
ExtractInit ==
    /\ ScanStart
    /\ sFiles \in { << [file |-> FileName(1), load |-> Imported(m)] >> : m \in Modules }

\* one iteration of `for (const file of files)`
ScanFile ==
    /\ spc = "loop"
    /\ sIdx <= Len(sFiles)
    /\ LET after == ScanOneFile(sResults, sFiles[sIdx], sVerbose)
       IN /\ sResults' = after.results
          /\ spc' = IF after.threw THEN "threw" ELSE "loop"
    /\ sIdx' = sIdx + 1
    /\ UNCHANGED <<sFiles, sVerbose, nvars, fvars, wvars, rvars>>

\* return results
ScanReturn ==
    /\ spc = "loop"
    /\ sIdx > Len(sFiles)
    /\ spc' = "returned"
    /\ UNCHANGED <<sFiles, sVerbose, sIdx, sResults, nvars, fvars, wvars, rvars>>

ScanNext == ScanFile \/ ScanReturn

SpecScan == ScanInit /\ [][ScanNext]_vars

SpecExtract == ExtractInit /\ [][ScanNext]_vars

(***************************************************************************)
(* index.ts: getSchemaUrl, convertToJsonSchema, writeCombinedOutput,       *)
(* writeSeparateOutputs.  A JSON document is a function from its top-level *)
(* keys to values; string values are sequences like every string here.     *)
(***************************************************************************)
Draft7Url == <<"http://json-schema.org/draft-07/schema#">>
Draft2020Url == <<"https://json-schema.org/draft/2020-12/schema">>

\* --target is not validated by the CLI: any string reaches getSchemaUrl
Targets == {"draft-7", "draft-2020-12", "openapi-3.0"}

getSchemaUrl(target) ==
    CASE target = "draft-7" -> Draft7Url
      [] target = "draft-2020-12" -> Draft2020Url
      [] OTHER -> Draft2020Url

\* { [key]: value }
Obj(key, value) == [k \in {key} |-> value]

\* obj[key] = value
Put(obj, key, value) ==
    [k \in DOMAIN obj \cup {key} |-> IF k = key THEN value ELSE obj[k]]

\* { ...a, ...b }: the keys of both, b's value where both have the key
Spread(a, b) ==
    [k \in DOMAIN a \cup DOMAIN b |-> IF k \in DOMAIN b THEN b[k] ELSE a[k]]

\* const { [key]: _, ...rest } = obj
Without(obj, key) == [k \in DOMAIN obj \ {key} |-> obj[k]]

\* JSON.stringify(value, null, 2) when format, JSON.stringify(value) otherwise
Stringify(value, format) == [indent |-> IF format THEN 2 ELSE 0, json |-> value]

\* what z.toJSONSchema returns or raises for a schema: every document has a
\* type key; $schema and title are present or not
ExternalSchemaUrl == <<"external $schema">>
ExternalTitle == <<"external title">>
ObjectType == <<"object">>

ExternalDocs ==
    { [k \in {"type"} \cup keys |->
         CASE k = "$schema" -> ExternalSchemaUrl
           [] k = "title" -> ExternalTitle
           [] OTHER -> ObjectType] : keys \in SUBSET {"$schema", "title"} }

Returned(doc) == [ok |-> TRUE, doc |-> doc, error |-> <<>>]
Raised(error) == [ok |-> FALSE, doc |-> EmptyObject, error |-> error]

ExternalError == <<"z.toJSONSchema error">>

ExternalOutcomes == {Returned(d) : d \in ExternalDocs} \cup {Raised(ExternalError)}

\* `Failed to convert schema "${name}": ${error}`
ConvertError(name, error) ==
    <<"Failed to convert schema \"">> \o name \o <<"\": ">> \o error

\* mutant: the title is set whether or not the external result has one
convertToJsonSchema_AlwaysTitle(external, name, target) ==
    IF external.ok
    THEN Returned(Spread(external.doc, Obj("title", name)))
    ELSE Raised(ConvertError(name, external.error))

\* convertToJsonSchema, given what z.toJSONSchema(schema, {target, ...}) did
convertToJsonSchema(external, name, target) ==
    IF external.ok
    THEN IF "title" \notin DOMAIN external.doc
         THEN Returned(Spread(Obj("title", name), external.doc))
         ELSE Returned(external.doc)
    ELSE Raised(ConvertError(name, external.error))

jsonExt == <<".", "j", "s", "o", "n">>
CombinedFileName == <<"s", "c", "h", "e", "m", "a", "s">> \o jsonExt

\* the document separate mode serializes for a converted schema
FinalSchema(jsonSchema, target) ==
    IF "$schema" \in DOMAIN jsonSchema
    THEN jsonSchema
    ELSE Spread(Obj("$schema", getSchemaUrl(target)), jsonSchema)

\* mutant: combined mode keeps the $schema key of the individual schemas
DefsEntry_KeepMeta(jsonSchema) == jsonSchema

\* the value combined mode stores under $defs[name]
DefsEntry(jsonSchema) == Without(jsonSchema, "$schema")

Call(name, schema, external, result, written) ==
    [name |-> name, schema |-> schema, external |-> external,
     result |-> result, written |-> written]

\* mutant: the catch of the loop counts nothing
CountError_Forgets(errorCount) == errorCount

\* errorCount++ in the catch of either loop
CountError(errorCount) == errorCount + 1

\* mutant: the catch of the loop rethrows
AfterSchemaError_Rethrow == "threw"

\* where a writer is after the catch of its loop: still in the loop
AfterSchemaError == "loop"

\* one iteration of the loop of writeSeparateOutputs; fs.writeFile may fail
WriteSeparateStep ==
    /\ wpc = "loop"
    /\ ~wCombined
    /\ wIdx <= Len(wSchemas)
    /\ \E external \in ExternalOutcomes, writeOk \in BOOLEAN :
        LET name == wSchemas[wIdx].name
            result == convertToJsonSchema(external, name, wTarget)
            written == result.ok /\ writeOk
        IN /\ (~result.ok => writeOk)
           /\ wCalls' = Append(wCalls, Call(name, wSchemas[wIdx].schema, external, result, written))
           /\ IF written
              THEN /\ wDisk' = Put(wDisk, name \o jsonExt,
                                   Stringify(FinalSchema(result.doc, wTarget), wFormat))
                   /\ wSuccessCount' = wSuccessCount + 1
                   /\ UNCHANGED <<wErrorCount, wpc>>
              ELSE /\ wErrorCount' = CountError(wErrorCount)
                   /\ wpc' = AfterSchemaError
                   /\ UNCHANGED <<wDisk, wSuccessCount>>
    /\ wIdx' = wIdx + 1
    /\ UNCHANGED <<wopts, wSchemas, wDefs, nvars, fvars, svars, rvars>>

\* the end of writeSeparateOutputs
WriteSeparateReturn ==
    /\ wpc = "loop"
    /\ ~wCombined
    /\ wIdx > Len(wSchemas)
    /\ wpc' = "returned"
    /\ UNCHANGED <<wopts, wSchemas, wIdx, wErrorCount, wSuccessCount, wDefs, wDisk, wCalls,
                   nvars, fvars, svars, rvars>>

\* one iteration of the loop of writeCombinedOutput
WriteCombinedStep ==
    /\ wpc = "loop"
    /\ wCombined
    /\ wIdx <= Len(wSchemas)
    /\ \E external \in ExternalOutcomes :
        LET name == wSchemas[wIdx].name
            result == convertToJsonSchema(external, name, wTarget)
        IN /\ wCalls' = Append(wCalls, Call(name, wSchemas[wIdx].schema, external, result, result.ok))
           /\ IF result.ok
              THEN /\ wDefs' = Put(wDefs, name, DefsEntry(result.doc))
                   /\ UNCHANGED <<wErrorCount, wpc>>
              ELSE /\ wErrorCount' = CountError(wErrorCount)
                   /\ wpc' = AfterSchemaError
                   /\ UNCHANGED wDefs
    /\ wIdx' = wIdx + 1
    /\ UNCHANGED <<wopts, wSchemas, wSuccessCount, wDisk, nvars, fvars, svars, rvars>>

\* after the loop of writeCombinedOutput: schemas.json is written, or
\* fs.writeFile fails and the failure leaves writeCombinedOutput
WriteCombinedFile ==
    /\ wpc = "loop"
    /\ wCombined
    /\ wIdx > Len(wSchemas)
    /\ \E writeOk \in BOOLEAN :
        IF writeOk
        THEN /\ wDisk' = Put(wDisk, CombinedFileName,
                             Stringify(Spread(Obj("$schema", getSchemaUrl(wTarget)),
                                              Obj("$defs", wDefs)), wFormat))
             /\ wpc' = "returned"
        ELSE /\ wpc' = "threw"
             /\ UNCHANGED wDisk
    /\ UNCHANGED <<wopts, wSchemas, wIdx, wErrorCount, wSuccessCount, wDefs, wCalls,
                   nvars, fvars, svars, rvars>>

WriteNames == { <<"U">>, <<"b", "_", "U">>, <<"V">> }

\* aggregated schemas: names are distinct; the schema handle is the position
WriteInputs ==
    { [i \in DOMAIN names |-> [name |-> names[i], schema |-> i]] :
        names \in { ns \in SeqsUpTo(WriteNames, MaxSchemas) :
                      \A i, j \in DOMAIN ns : i # j => ns[i] # ns[j] } }

WriteInit ==
    /\ wpc = "loop"
    /\ wCombined \in BOOLEAN
    /\ wTarget \in Targets
    /\ wFormat \in BOOLEAN
    /\ wSchemas \in WriteInputs
    /\ wIdx = 1
    /\ wErrorCount = 0
    /\ wSuccessCount = 0
    /\ wDefs = EmptyObject
    /\ wDisk = EmptyObject
    /\ wCalls = <<>>
    /\ NormIdle
    /\ FlatIdle
    /\ ScanIdle
    /\ RunIdle

WriteNext ==
    \/ WriteSeparateStep
    \/ WriteSeparateReturn
    \/ WriteCombinedStep
    \/ WriteCombinedFile

SpecWrite == WriteInit /\ [][WriteNext]_vars

(***************************************************************************)
(* index.ts: run and the action of the command                             *)
(***************************************************************************)
\* what `await fs.stat(absoluteInput)` gives: a directory, another kind of
\* file, or a failure with code ENOENT or with another code
StatOutcomes == {"directory", "file", "ENOENT", "EACCES"}

RunLoads ==
    { ImportError,
      Imported(<< [exportName |-> <<"U">>, exportValue |-> Zod3Schema] >>),
      Imported(<< [exportName |-> <<"U">> \o SchemaSuffix, exportValue |-> Zod4Schema] >>) }

RunInit ==
    /\ rpc = "start"
    /\ rStat \in StatOutcomes
    /\ rFaults = {}
    /\ rExit = -1
    /\ spc = "idle"
    /\ sFiles \in UNION { { [i \in 1..n |-> [file |-> FileName(i), load |-> loads[i]]] :
                              loads \in [1..n -> RunLoads] } : n \in 0..MaxRunFiles }
    /\ sVerbose \in BOOLEAN
    /\ sIdx = 0
    /\ sResults = <<>>
    /\ wpc = "idle"
    /\ wCombined \in BOOLEAN
    /\ wTarget \in {"draft-7", "draft-2020-12"}
    /\ wFormat = TRUE
    /\ wSchemas = <<>>
    /\ wIdx = 0
    /\ wErrorCount = 0
    /\ wSuccessCount = 0
    /\ wDefs = EmptyObject
    /\ wDisk = EmptyObject
    /\ wCalls = <<>>
    /\ NormIdle
    /\ FlatIdle

\* run, up to the call of scanDirectory: the check of the input directory
RunStat ==
    /\ rpc = "start"
    /\ rpc' = IF rStat = "directory" THEN "glob" ELSE "caught"
    /\ UNCHANGED <<rStat, rFaults, rExit, nvars, fvars, svars, wvars>>

\* scanDirectory, up to its loop: glob lists the files or fails
RunGlob ==
    /\ rpc = "glob"
    /\ \E globOk \in BOOLEAN :
        IF globOk
        THEN /\ rpc' = "scan"
             /\ spc' = "loop"
             /\ sIdx' = 1
             /\ UNCHANGED rFaults
        ELSE /\ rpc' = "caught"
             /\ rFaults' = rFaults \cup {"glob"}
             /\ UNCHANGED <<spc, sIdx>>
    /\ UNCHANGED <<rStat, rExit, sFiles, sVerbose, sResults, nvars, fvars, wvars>>

\* where run is after `No schemas found.`: it has returned
AfterNoSchemas == "returned"

\* run, from the return of scanDirectory to the call of an output writer
RunAfterScan ==
    /\ rpc = "scan"
    /\ spc \in {"returned", "threw"}
    /\ IF spc = "threw"
       THEN /\ rpc' = "caught"
            /\ UNCHANGED <<rFaults, wvars>>
       ELSE IF Len(sResults) = 0
       THEN /\ rpc' = AfterNoSchemas
            /\ UNCHANGED <<rFaults, wvars>>
       ELSE \E mkdirOk \in BOOLEAN :
            IF mkdirOk
            THEN /\ rpc' = "write"
                 /\ wSchemas' = flattenSchemas(sResults)
                 /\ wpc' = "loop"
                 /\ wIdx' = 1
                 /\ UNCHANGED <<rFaults, wopts, wErrorCount, wSuccessCount, wDefs, wDisk, wCalls>>
            ELSE /\ rpc' = "caught"
                 /\ rFaults' = rFaults \cup {"mkdir"}
                 /\ UNCHANGED wvars
    /\ UNCHANGED <<rStat, rExit, nvars, fvars, svars>>

\* run, after the output writer: `Done!`, or the writer's failure goes on
RunAfterWrite ==
    /\ rpc = "write"
    /\ wpc \in {"returned", "threw"}
    /\ rpc' = IF wpc = "returned" THEN "returned" ELSE "caught"
    /\ UNCHANGED <<rStat, rFaults, rExit, nvars, fvars, svars, wvars>>

\* the catch of the action: process.exit(1)
ActionCatch ==
    /\ rpc = "caught"
    /\ rExit' = 1
    /\ rpc' = "exited"
    /\ UNCHANGED <<rStat, rFaults, nvars, fvars, svars, wvars>>

\* run returned: nothing is left to do and the process ends with code 0
ProcessEnd ==
    /\ rpc = "returned"
    /\ rExit' = 0
    /\ rpc' = "exited"
    /\ UNCHANGED <<rStat, rFaults, nvars, fvars, svars, wvars>>

RunNext ==
    \/ RunStat
    \/ RunGlob
    \/ ScanFile
    \/ ScanReturn
    \/ RunAfterScan
    \/ WriteSeparateStep
    \/ WriteSeparateReturn
    \/ WriteCombinedStep
    \/ WriteCombinedFile
    \/ RunAfterWrite
    \/ ActionCatch
    \/ ProcessEnd

SpecRun == RunInit /\ [][RunNext]_vars

(***************************************************************************)
(* Claims about the name normalizer (checked under SpecNorm).              *)
(***************************************************************************)
IsUppercaseLetter(c) == c \in UpperLetters

\* the normalizer as the documentation words it: the z is dropped if and
\* only if an uppercase letter follows it
DocumentedNormalize(x) ==
    LET rest == IF EndsWith(x, SchemaSuffix) THEN SubSeq(x, 1, Len(x) - Len(SchemaSuffix))
                ELSE IF EndsWith(x, ZodSuffix) THEN SubSeq(x, 1, Len(x) - Len(ZodSuffix))
                ELSE x
    IN IF Len(rest) >= 2 /\ rest[1] = "z" /\ IsUppercaseLetter(rest[2])
       THEN Tail(rest)
       ELSE rest

\* C9: for every export name, normalizeSchemaName returns the name with a
\* trailing Schema (else a trailing Zod) stripped and then the leading
\* character dropped if and only if what remains begins with z followed by
\* an uppercase letter.
C9_NormalizeAsDocumented ==
    npc # "start" => nResult = DocumentedNormalize(nName)

\* a name the normalizer has nothing to strip from
PatternFree(y) ==
    /\ ~EndsWith(y, SchemaSuffix)
    /\ ~EndsWith(y, ZodSuffix)
    /\ ~(Len(y) > 1 /\ y[1] = "z" /\ ToUpperCase(y[2]) = y[2])

\* C10 as stated: normalize(normalize(x)) = normalize(x) for every export name.
C10_Idempotent ==
    npc = "twice" => nAgain = nResult

\* C10 amended: a second pass leaves the first pass's result unchanged
\* exactly when that result neither ends with Schema or Zod nor begins with
\* z followed by a character equal to its own uppercase form.
C10_IdempotentOnPatternFree ==
    npc = "twice" => ((nAgain = nResult) <=> PatternFree(nResult))

\* C10 witness: a suffix was stripped and the second pass changed nothing.
C10_Witness ==
    /\ npc = "twice"
    /\ nName # nResult
    /\ nAgain = nResult

(***************************************************************************)
(* Claims about flattenSchemas (checked under SpecFlatten).                *)
(***************************************************************************)
\* the input exports in encounter order, each with the path of its file
Encounter ==
    Flat([f \in DOMAIN fScanResults |->
            [e \in DOMAIN fScanResults[f].schemas |->
                [filePath |-> fScanResults[f].filePath,
                 name |-> fScanResults[f].schemas[e].name,
                 schema |-> fScanResults[f].schemas[e].schema]]])

\* the encounter position of the export a handle belongs to
EncounterOf(h) == CHOOSE k \in DOMAIN Encounter : Encounter[k].schema = h

\* the names of the entries that come from exports encountered before k
EmittedBefore(k) ==
    {fSchemas[i].name : i \in {j \in DOMAIN fSchemas : EncounterOf(fSchemas[j].schema) < k}}

\* the entries that come from the export encountered at k
EntriesOf(k) == {i \in DOMAIN fSchemas : fSchemas[i].schema = Encounter[k].schema}

\* a file's basename without its extension, whatever the extension is
RECURSIVE DropExtension(_)
DropExtension(seg) ==
    IF Len(seg) <= 1 THEN seg
    ELSE IF seg[Len(seg)] = Dot THEN SubSeq(seg, 1, Len(seg) - 1)
    ELSE LET rest == DropExtension(SubSeq(seg, 1, Len(seg) - 1))
         IN IF rest = SubSeq(seg, 1, Len(seg) - 1) THEN seg ELSE rest

BaseNameWithoutExtension(filePath) == DropExtension(LastSegment(filePath))

\* the rule of the aggregator for the export encountered at k, with the
\* file prefix computed by prefixOf
FollowsRule(k, prefixOf(_)) ==
    LET e == Encounter[k]
        renamed == prefixOf(e.filePath) \o Underscore \o e.name
    IN IF e.name \notin EmittedBefore(k)
       THEN \E i \in DOMAIN fSchemas : EntriesOf(k) = {i} /\ fSchemas[i].name = e.name
       ELSE IF renamed \notin EmittedBefore(k)
       THEN \E i \in DOMAIN fSchemas : EntriesOf(k) = {i} /\ fSchemas[i].name = renamed
       ELSE EntriesOf(k) = {}

InEncounterOrder ==
    \A i, j \in DOMAIN fSchemas :
        i < j => EncounterOf(fSchemas[i].schema) < EncounterOf(fSchemas[j].schema)

\* C1: the names in the sequence flattenSchemas returns are pairwise
\* distinct, whatever the files, export names and file paths are.
C1_NamesDistinct ==
    fpc = "done" =>
        \A i, j \in DOMAIN fSchemas : i # j => fSchemas[i].name # fSchemas[j].name

\* C1 witness: two exports carried the same name; both were emitted, the
\* later one under its file-prefixed name.
C1_Witness ==
    /\ fpc = "done"
    /\ \E k1, k2 \in DOMAIN Encounter :
        /\ k1 < k2
        /\ Encounter[k1].name = Encounter[k2].name
        /\ EntriesOf(k1) # {}
        /\ \E i \in EntriesOf(k2) : fSchemas[i].name # Encounter[k2].name

\* the prefix the code computes: the basename with a trailing .ts removed
BaseNameWithoutTs(filePath) == basename(filePath, tsExt)

\* The aggregator's rule with the prefix flattenSchemas computes: order,
\* emit unchanged, one rename, drop on a second collision.
C2_RuleWithTsSuffix ==
    fpc = "done" =>
        /\ InEncounterOrder
        /\ \A k \in DOMAIN Encounter : FollowsRule(k, BaseNameWithoutTs)

\* C2: exports are processed in input order; an export whose name is not
\* yet emitted is emitted unchanged, one whose name is already emitted is
\* emitted as {fileBaseName}_{name} with fileBaseName the basename of its
\* file without the extension (for every file path) if that name is not yet
\* emitted, and is dropped otherwise.
C2_RenameWithoutExtension ==
    fpc = "done" =>
        /\ InEncounterOrder
        /\ \A k \in DOMAIN Encounter : FollowsRule(k, BaseNameWithoutExtension)

(***************************************************************************)
(* Claims about the directory scanner (checked under SpecScan and          *)
(* SpecExtract).                                                           *)
(***************************************************************************)
ImportSucceeds(file) == file.load.ok

\* the results of scanning the given files one after the other
RECURSIVE ResultsOfScanning(_, _, _)
ResultsOfScanning(results, files, verbose) ==
    IF files = <<>> THEN results
    ELSE ResultsOfScanning(ScanOneFile(results, Head(files), verbose).results,
                           Tail(files), verbose)

\* C3: a file whose import fails is skipped and the scan goes on: the
\* failure never leaves scanDirectory, every matched file is visited, and
\* the entries returned are those, in the same order, of a scan in which
\* the failing files were not matched.
C3_ImportFailureSkipped ==
    /\ spc # "threw"
    /\ spc = "returned" =>
        /\ sIdx = Len(sFiles) + 1
        /\ sResults = ResultsOfScanning(<<>>, SelectSeq(sFiles, ImportSucceeds), sVerbose)

\* C3 witness: a file that failed to import lies between two files that
\* each gave an entry of the returned results.
C3_Witness ==
    /\ spc = "returned"
    /\ Len(sResults) >= 2
    /\ \E i, j, k \in DOMAIN sFiles :
        /\ i < j /\ j < k
        /\ ~ImportSucceeds(sFiles[j])
        /\ sResults[1].filePath = PathJoin(AbsoluteDir, sFiles[i].file)
        /\ sResults[2].filePath = PathJoin(AbsoluteDir, sFiles[k].file)

\* the naming patterns as the documentation lists them
MatchesNamingPattern(name) ==
    \/ EndsWith(name, SchemaSuffix)
    \/ EndsWith(name, ZodSuffix)
    \/ (Len(name) >= 2 /\ name[1] = "z" /\ IsUppercaseLetter(name[2]))
    \/ EndsWith(name, ValidatorSuffix)

Qualifies(entry) ==
    /\ entry.exportName # defaultName
    /\ isZodSchema(entry.exportValue)
    /\ (MatchesNamingPattern(entry.exportName) \/ sVerbose)

QualifyingExports(module) ==
    LET kept == SelectSeq(module, Qualifies)
    IN [i \in DOMAIN kept |->
          [name |-> IF MatchesNamingPattern(kept[i].exportName)
                    THEN normalizeSchemaName(kept[i].exportName)
                    ELSE kept[i].exportName,
           schema |-> kept[i].exportValue]]

\* C6: of a loaded module exactly the named exports other than default
\* that classify as schemas and match a naming pattern, or any classified
\* schema when verbose, are included, in the export table's order;
\* pattern-matched ones under the normalized name, the others under the
\* raw identifier; a file without qualifying exports gives no entry.
C6_QualifyingExports ==
    spc = "returned" =>
        LET expected == QualifyingExports(sFiles[1].load.module)
        IN sResults = IF expected = <<>>
                      THEN <<>>
                      ELSE << [filePath |-> PathJoin(AbsoluteDir, sFiles[1].file),
                               schemas |-> expected] >>

\* C6 witness: a verbose scan returned a file with a pattern-matched export
\* under its normalized name and an unpatterned one under its raw name.
C6_Witness ==
    /\ spc = "returned"
    /\ sVerbose
    /\ Len(sResults) = 1
    /\ \E i, j \in DOMAIN sFiles[1].load.module :
        LET a == sFiles[1].load.module[i]
            b == sFiles[1].load.module[j]
        IN /\ MatchesNamingPattern(a.exportName)
           /\ ~MatchesNamingPattern(b.exportName)
           /\ \E x, y \in DOMAIN sResults[1].schemas :
                /\ sResults[1].schemas[x].name = normalizeSchemaName(a.exportName)
                /\ sResults[1].schemas[x].name # a.exportName
                /\ sResults[1].schemas[y].name = b.exportName
                /\ x # y

(***************************************************************************)
(* Claims about the converter adapter and the output writers (checked      *)
(* under SpecWrite).                                                       *)
(***************************************************************************)
\* the schemas whose conversion raised, whose output was written, and
\* those that failed (conversion raised, or fs.writeFile failed in
\* separate mode)
ConversionRaised == {i \in DOMAIN wCalls : ~wCalls[i].external.ok}
Written == {i \in DOMAIN wCalls : wCalls[i].written}
Failed == DOMAIN wCalls \ Written

AttemptedOnceInOrder ==
    /\ Len(wCalls) = Len(wSchemas)
    /\ \A i \in DOMAIN wCalls :
        /\ wCalls[i].name = wSchemas[i].name
        /\ wCalls[i].schema = wSchemas[i].schema

\* the names that have an output: {name}.json files in separate mode,
\* $defs keys of schemas.json in combined mode
OutputNames ==
    IF wCombined
    THEN IF CombinedFileName \in DOMAIN wDisk
         THEN DOMAIN wDisk[CombinedFileName].json["$defs"]
         ELSE {}
    ELSE {wSchemas[i].name : i \in {j \in DOMAIN wSchemas :
                                      wSchemas[j].name \o jsonExt \in DOMAIN wDisk}}

SeparateDocument(call) ==
    FinalSchema(convertToJsonSchema(call.external, call.name, wTarget).doc, wTarget)

\* C7: combined mode writes exactly one document, schemas.json, whose
\* $schema is the URL of the target and whose $defs is keyed by schema
\* name; every entry has no $schema key and is otherwise the document
\* separate mode writes for the same schema and target, without $schema.
C7_CombinedMatchesSeparate ==
    (wpc = "returned" /\ wCombined) =>
        /\ DOMAIN wDisk = {CombinedFileName}
        /\ LET doc == wDisk[CombinedFileName].json
           IN /\ DOMAIN doc = {"$schema", "$defs"}
              /\ wTarget = "draft-7" => doc["$schema"] = Draft7Url
              /\ wTarget = "draft-2020-12" => doc["$schema"] = Draft2020Url
              /\ DOMAIN doc["$defs"] = {wCalls[i].name : i \in Written}
              /\ \A i \in Written :
                    LET entry == doc["$defs"][wCalls[i].name]
                        separate == SeparateDocument(wCalls[i])
                    IN /\ "$schema" \notin DOMAIN entry
                       /\ "$schema" \in DOMAIN separate
                       /\ DOMAIN entry = DOMAIN separate \ {"$schema"}
                       /\ \A k \in DOMAIN entry : entry[k] = separate[k]

\* C7 witness: schemas.json was written with an entry for a schema whose
\* external document carried its own $schema.
C7_Witness ==
    /\ wpc = "returned"
    /\ wCombined
    /\ wTarget = "draft-7"
    /\ \E i \in Written : "$schema" \in DOMAIN wCalls[i].external.doc

\* the string contains the part
Contains(string, part) ==
    \E i \in 1..(Len(string) - Len(part) + 1) :
        SubSeq(string, i, i + Len(part) - 1) = part

\* C8: when the external converter returns a document, the result has
\* title = name if the external document has no title and the external
\* title otherwise, and every other key of the external document
\* unchanged, none added or removed; when it raises, the error raised
\* names the failing schema.
C8_TitleInjectedErrorsWrapped ==
    \A i \in DOMAIN wCalls :
        LET call == wCalls[i]
        IN IF call.external.ok
           THEN /\ call.result.ok
                /\ DOMAIN call.result.doc = DOMAIN call.external.doc \cup {"title"}
                /\ call.result.doc["title"] =
                      IF "title" \in DOMAIN call.external.doc
                      THEN call.external.doc["title"]
                      ELSE call.name
                /\ \A k \in DOMAIN call.external.doc \ {"title"} :
                      call.result.doc[k] = call.external.doc[k]
           ELSE /\ ~call.result.ok
                /\ Contains(call.result.error, call.name)

\* C8 witness: one conversion got the name as title and another kept the
\* external title.
C8_Witness ==
    /\ \E i \in DOMAIN wCalls :
        /\ wCalls[i].external.ok
        /\ "title" \notin DOMAIN wCalls[i].external.doc
        /\ wCalls[i].result.doc["title"] = wCalls[i].name
    /\ \E i \in DOMAIN wCalls :
        /\ wCalls[i].external.ok
        /\ "title" \in DOMAIN wCalls[i].external.doc
        /\ wCalls[i].result.doc["title"] = ExternalTitle

(***************************************************************************)
(* Claims about the CLI run (checked under SpecRun).                       *)
(***************************************************************************)
\* an exception leaves run: fs.stat fails with another code than ENOENT,
\* glob or fs.mkdir fails, or writing schemas.json fails
ExceptionLeavesRun ==
    \/ rStat = "EACCES"
    \/ "glob" \in rFaults
    \/ "mkdir" \in rFaults
    \/ (wpc = "threw" /\ wCombined /\ Len(wCalls) = Len(wSchemas))

\* C5: the run ends with exit code 1 if the input path does not exist, is
\* not a directory, or an exception leaves run; in every other case it
\* ends with exit code 0, also when no schema is found and when imports or
\* conversions fail.
C5_ExitCode ==
    rpc = "exited" =>
        rExit = IF rStat = "ENOENT" \/ rStat = "file" \/ ExceptionLeavesRun THEN 1 ELSE 0

\* C5 witness: the run ended with code 0 although an import failed and a
\* conversion raised.
C5_Witness ==
    /\ rpc = "exited"
    /\ rExit = 0
    /\ \E i \in DOMAIN sFiles : ~sFiles[i].load.ok
    /\ \E i \in DOMAIN wCalls : ~wCalls[i].external.ok

(***************************************************************************)
(* The result of flattenSchemas as a subsequence of its input (checked     *)
(* under SpecFlatten).                                                     *)
(***************************************************************************)
\* the positions in the encounter sequence enc of the exports with the
\* schema handle of entry i
OriginsOf(enc, i) == {k \in DOMAIN enc : enc[k].schema = fSchemas[i].schema}

\* entry i carries the name of the export e, or that name behind the prefix
\* of the export's file
NamedAfter(i, e) ==
    \/ fSchemas[i].name = e.name
    \/ fSchemas[i].name = BaseNameWithoutTs(e.filePath) \o Underscore \o e.name

\* C11: the output of flattenSchemas is an order-preserving subsequence of
\* the input exports taken file by file and export by export: every entry
\* comes from one input export, whose schema handle it carries unchanged
\* and whose name it has either as it is or behind the file prefix;
\* entries appear in encounter order, none twice, none invented.
C11_OrderPreservingSubsequence ==
    fpc = "done" =>
        LET enc == Encounter
            origins == [i \in DOMAIN fSchemas |-> OriginsOf(enc, i)]
        IN /\ Len(fSchemas) <= Len(enc)
           /\ \A i \in DOMAIN fSchemas :
                \E k \in DOMAIN enc : origins[i] = {k} /\ NamedAfter(i, enc[k])
           /\ \A i, j \in DOMAIN fSchemas :
                i < j => \A k \in origins[i], l \in origins[j] : k < l

\* C11 witness: of the input exports one was emitted under its own name, a
\* later one under its file-prefixed name, and one was dropped.
C11_Witness ==
    /\ fpc = "done"
    /\ Len(fSchemas) >= 2
    /\ LET enc == Encounter
       IN /\ \E k \in DOMAIN enc : \A i \in DOMAIN fSchemas : k \notin OriginsOf(enc, i)
          /\ \E i, j \in DOMAIN fSchemas :
                /\ i < j
                /\ \E k \in OriginsOf(enc, i) : fSchemas[i].name = enc[k].name
                /\ \E l \in OriginsOf(enc, j) : fSchemas[j].name # enc[l].name

====
